---- MODULE Spec2Model ----
(***************************************************************************)
(* Document retrieval and question-answering engine of Engunity:           *)
(* the processing pipeline (DocumentService), the document repository,     *)
(* the per-document vector index (SimpleVectorStore) and the QA            *)
(* orchestrator (DocumentQAService).                                       *)
(*                                                                         *)
(* Every `await` of a coroutine is a step boundary: another task may run   *)
(* between two awaited calls of one handler.  Stages that only compute     *)
(* (download, extract, empty-text check, chunk) are one step; every stage  *)
(* that writes shared state (status update, chunk save, index write) is a  *)
(* step of its own.  A stage that raises runs the handler's except block   *)
(* in the same step.                                                       *)
(***************************************************************************)
EXTENDS Integers, Sequences, FiniteSets, TLC

\* ---------------------------------------------------------------- bounds
NumDocs == 5          \* document ids 1..NumDocs
NumRuns == 4          \* pipeline run slots (background tasks / bulk tasks)
MaxLaunches == 2      \* pipeline runs launched in one behaviour of Spec
chunk_size == 3       \* settings.chunk_size, scaled down (symbols per window)
chunk_overlap == 1    \* settings.chunk_overlap, scaled down

\* ------------------------------------------------------------- constants
MaxAsks == 2          \* ask_question calls made in one behaviour of SpecQA
MaxVecs == 2          \* vectors handed to one create_index / update_index call
MaxK == 2
MaxDeletes == 2
MaxTextLen == 5
MaxChunkSize == 3
MaxPieces == 3
NumKeys == 3
RecursionLimit == 6             \* max_chunks of a request ranges over 1..MaxK
max_concurrent_processing == 3

Docs == 1..NumDocs
RunIds == 1..NumRuns
PipeDocs == {1}       \* documents used by Spec (overlapping runs on one document)
PipeRuns == {1, 2}    \* run slots used by Spec

None == "None"        \* Python None / SQL NULL

\* The raw file of a document after delete_file: download_file raises.
NoFile == <<"NoSuchKey">>

\* Extracted texts: sequences of symbols; "a", "b" are words, " " is whitespace.
Texts == { <<"a", "a", "a">>,
           <<"a", "b", "b", "b">>,
           <<" ", " ">> }

VARIABLES
    documents,     \* Document rows: [Docs -> record]
    chunkTable,    \* DocumentChunk rows per document, in insertion order
    indexFile,     \* simple_index_<id>.pkl per document
    fileText,      \* the uploaded raw file of each document (its extractable text)
    runs,          \* pipeline runs (process_document_content invocations)
    launches,      \* number of pipeline runs launched so far
    completions,   \* per document, the runs that returned without raising
    bulk,          \* the bulk_process_documents call: its semaphore and results
    ask,           \* the ask_question call in flight, or the last one that ended
    interactions,  \* DocumentQAInteraction rows, in insertion order
    calls,         \* number of ask_question calls made so far
    vsCall,        \* the last call made on the vector store, with its outcome
    deletion,      \* the delete_document call in flight, or the last one that ended
    chunking,      \* a call of _create_text_chunks: its arguments and its result
    completion     \* a call of GroqService.create_chat_completion and its retries

qaVars == <<ask, interactions, calls>>
vars == <<documents, chunkTable, indexFile, fileText, runs, launches, completions, bulk,
          ask, interactions, calls, vsCall, deletion, chunking, completion>>

\* ------------------------------------------------------------ pure helpers
\* str.strip() is empty: only whitespace symbols
IsBlank(s) == \A i \in 1..Len(s) : s[i] = " "

Min(a, b) == IF a <= b THEN a ELSE b

\* text_content[i:i + chunk_size] with 0-based i (Python slice, clipped at the end)
Slice(s, i, n) == SubSeq(s, i + 1, Min(Len(s), i + n))

\* Page markers "--- Page N ---" in a text: the symbol "P" is the string
\* "--- Page", "-" is a "---" that is not followed by " Page", "1" and "2"
\* are digits.
Digits == {"1", "2"}
DigitValue(c) == IF c = "1" THEN 1 ELSE 2

\* the position of the first symbol of s that is in `stops`, Len(s) + 1 if
\* there is none
RECURSIVE FirstOf(_, _, _)
FirstOf(s, stops, i) ==
    IF i > Len(s) THEN i ELSE IF s[i] \in stops THEN i ELSE FirstOf(s, stops, i + 1)

\* str.strip()
RECURSIVE Strip(_)
Strip(s) ==
    IF s = <<>> THEN s
    ELSE IF Head(s) = " " THEN Strip(Tail(s))
    ELSE IF s[Len(s)] = " " THEN Strip(SubSeq(s, 1, Len(s) - 1))
    ELSE s

\* int(page_marker) of a string of digits
RECURSIVE ToInt(_)
ToInt(s) == IF s = <<>> THEN 0 ELSE 10 * ToInt(SubSeq(s, 1, Len(s) - 1)) + DigitValue(s[Len(s)])

\* The page estimate of _create_text_chunks for one chunk: when "--- Page" is
\* in the chunk, chunk_text.split("--- Page")[1].split("---")[0].strip() is
\* read as an int, and a ValueError leaves current_page as it was.
PageOf(chunk_text, current_page) ==
    LET first == FirstOf(chunk_text, {"P"}, 1)
    IN  IF first > Len(chunk_text) THEN current_page
        ELSE LET rest == SubSeq(chunk_text, first + 1, Len(chunk_text))
                 field == SubSeq(rest, 1, FirstOf(rest, {"P", "-"}, 1) - 1)
                 page_marker == Strip(field)
             IN  IF page_marker # <<>> /\ \A i \in 1..Len(page_marker) : page_marker[i] \in Digits
                 THEN ToInt(page_marker)
                 ELSE current_page

\* _create_text_chunks: windows at 0, step, 2*step, ... < len(text); blank
\* windows are skipped; chunk_index = len(chunks) at emission; current_page
\* starts at 1 and changes only when a chunk is emitted.
RECURSIVE ChunkFrom(_, _, _, _, _)
ChunkFrom(text, i, size, overlap, acc) ==
    IF i >= Len(text) THEN acc
    ELSE LET chunk_text == Slice(text, i, size)
             current_page == IF acc = <<>> THEN 1 ELSE acc[Len(acc)].page_number
             next == IF IsBlank(chunk_text) THEN acc
                     ELSE Append(acc, [page_number |-> PageOf(chunk_text, current_page),
                                       id |-> 0, chunk_index |-> Len(acc),
                                       content |-> chunk_text])
         IN  ChunkFrom(text, i + (size - overlap), size, overlap, next)

CreateTextChunks(text) == ChunkFrom(text, 0, chunk_size, chunk_overlap, <<>>)

\* No call of _create_text_chunks made yet.
NoChunking == [pc |-> "idle", text |-> <<>>, chunk_size |-> 0, chunk_overlap |-> 0,
               chunks |-> <<>>]

\* --------------------------------------------------------- embedding model
Count(sym, s) == Cardinality({i \in 1..Len(s) : s[i] = sym})
Words(s) == {s[i] : i \in 1..Len(s)} \ {" "}

\* generate_embeddings, the branch taken when self.model is None (always:
\* SENTENCE_TRANSFORMERS_AVAILABLE = False).  One bucket per word weighted by
\* count/len(words), and the vocabulary-diversity feature len(set(words))/
\* len(words); scaled by len(words) to stay in the integers (only the
\* direction of a vector matters to the index).  The features below 0.05 for
\* texts of this size (length/1000, words/100, punctuation densities) are
\* dropped.
FallbackEmbedding(text) == <<Count("a", text), Count("b", text), Cardinality(Words(text))>>

\* self.embedding_dim: the dimension of the embedder's vectors
embedding_dim == Len(FallbackEmbedding(<<>>))

\* A component that is not a finite number (np.nan, np.inf) is written as
\* this value, which no finite component of the model takes.
NaN == -1000000
IsFinite(u) == \A i \in 1..Len(u) : u[i] # NaN

Dot(u, v) == LET n == Len(u)
                 RECURSIVE S(_)
                 S(i) == IF i = 0 THEN 0 ELSE u[i] * v[i] + S(i - 1)
             IN  S(n)
Norm2(u) == Dot(u, u)

RECURSIVE Gcd(_, _)
Gcd(a, b) == IF b = 0 THEN a ELSE Gcd(b, a % b)
Abs(x) == IF x < 0 THEN -x ELSE x
RECURSIVE GcdSeq(_)
GcdSeq(u) == IF u = <<>> THEN 0 ELSE Gcd(Abs(Head(u)), GcdSeq(Tail(u)))

\* embeddings / norms with norms == 0 replaced by 1: a unit vector is
\* represented by its primitive integer direction, a zero vector stays zero.
\* A row with a non-finite component has a non-finite norm and comes out
\* non-finite.
Normalize(u) == LET g == GcdSeq(u)
                IN  IF ~IsFinite(u) THEN [i \in 1..Len(u) |-> NaN]
                    ELSE IF g = 0 THEN u ELSE [i \in 1..Len(u) |-> u[i] \div g]

\* ------------------------------------------------------------- repository
NoCount == -1         \* chunk_count argument left at its default (None)

NoDocument == [exists |-> FALSE, processing_status |-> None, error_message |-> None,
               chunk_count |-> 0, processed_at |-> None]

\* Python truthiness of an Optional[str]
Truthy(m) == m # None /\ m # ""

\* DocumentRepository.update_processing_status, applied to the row it finds
UpdateProcessingStatus(doc, status, error_message, chunk_count) ==
    [doc EXCEPT !.processing_status = status,
                !.error_message = IF Truthy(error_message) THEN error_message ELSE @,
                !.chunk_count = IF chunk_count # NoCount THEN chunk_count ELSE @,
                !.processed_at = IF status = "completed" THEN "stamped" ELSE @]

\* DocumentRepository.save_document_chunks: db.add_all(chunks); commit.
\* The rows are inserted after the rows already stored; each gets a fresh id.
InsertedRows(table, chunks) ==
    [i \in 1..Len(chunks) |-> [chunks[i] EXCEPT !.id = Len(table) + i]]

SaveDocumentChunks(table, chunks) == table \o InsertedRows(table, chunks)

\* ------------------------------------------------------------ vector index
NoIndex == [state |-> "absent", embeddings |-> <<>>, metadata |-> <<>>]
TornIndex == [state |-> "torn", embeddings |-> <<>>, metadata |-> <<>>]

\* SimpleVectorStore.create_index, the data it pickles
IndexData(embeddings, metadata) ==
    [state |-> "complete",
     embeddings |-> [i \in 1..Len(embeddings) |-> Normalize(embeddings[i])],
     metadata |-> metadata]

\* ------------------------------------------------------ processing pipeline
IdleRun == [pc |-> "idle", document_id |-> 0, chunks |-> <<>>, embeddings |-> <<>>,
            exc |-> None, gate |-> 0, saved |-> FALSE, indexed |-> FALSE]

Free(r) == runs[r].pc \in {"idle", "done", "failed", "cancelled"} /\ runs[r].gate = 0

\* BackgroundTasks.add_task(process_document_content, document.id, db)
Schedule(r, d) == [IdleRun EXCEPT !.pc = "scheduled", !.document_id = d]

\* The message str(e) of the exception a stage lets reach the handler of
\* process_document_content.
StageErrors(stage) ==
    CASE stage = "download" -> {"Failed to download file: e"}
      [] stage = "extract"  -> {"Failed to extract text: e"}
      [] stage = "chunk"    -> {"Failed to create text chunks: e"}
      [] stage = "save"     -> {"Failed to save chunks: e", ""}
      [] stage = "embed"    -> {"Failed to generate embeddings: e"}
      [] stage = "index"    -> {"Failed to generate embeddings: Failed to create simple vector store: e"}

NoTextMessage == "No text content extracted from document"

\* except Exception as e: update_processing_status(id, "failed", error_message=str(e)); raise
\* (when the row is gone, update_processing_status raises DatabaseError
\* "Document not found" inside the handler and that exception ends the run)
Fail(r, m) ==
    LET d == runs[r].document_id
    IN  IF documents[d].exists
        THEN /\ documents' = [documents EXCEPT ![d] = UpdateProcessingStatus(@, "failed", m, NoCount)]
             /\ runs' = [runs EXCEPT ![r].pc = "failed", ![r].exc = m]
        ELSE /\ documents' = documents
             /\ runs' = [runs EXCEPT ![r].pc = "failed", ![r].exc = "Document not found"]

\* upload_document: create the Document row (pending) and schedule its run
Upload(d, text, r) ==
    /\ ~documents[d].exists
    /\ Free(r)
    /\ launches < MaxLaunches
    /\ documents' = [documents EXCEPT ![d] = [NoDocument EXCEPT !.exists = TRUE,
                                                               !.processing_status = "pending"]]
    /\ fileText' = [fileText EXCEPT ![d] = text]
    /\ runs' = [runs EXCEPT ![r] = Schedule(r, d)]
    /\ launches' = launches + 1
    /\ UNCHANGED <<chunkTable, indexFile, completions, bulk, qaVars, vsCall, deletion, chunking, completion>>

\* reprocess_document: reset the status, then schedule a run
Reprocess(d, r) ==
    /\ documents[d].exists
    /\ Free(r)
    /\ launches < MaxLaunches
    /\ documents' = [documents EXCEPT ![d] = UpdateProcessingStatus(@, "processing", None, NoCount)]
    /\ runs' = [runs EXCEPT ![r] = Schedule(r, d)]
    /\ launches' = launches + 1
    /\ UNCHANGED <<chunkTable, indexFile, fileText, completions, bulk, qaVars, vsCall, deletion, chunking, completion>>

\* process_document_content: update_processing_status(document_id, "processing")
\* (a missing row makes update_processing_status raise DatabaseError("Document
\* not found"), in the try block and again in the except block)
PStart(r) ==
    /\ runs[r].pc = "scheduled"
    /\ IF documents[runs[r].document_id].exists
       THEN /\ documents' = [documents EXCEPT ![runs[r].document_id] =
                                  UpdateProcessingStatus(@, "processing", None, NoCount)]
            /\ runs' = [runs EXCEPT ![r].pc = "extract"]
       ELSE /\ runs' = [runs EXCEPT ![r].pc = "failed", ![r].exc = "Document not found"]
            /\ UNCHANGED documents
    /\ UNCHANGED <<chunkTable, indexFile, fileText, launches, completions, bulk, qaVars, vsCall, deletion, chunking, completion>>

\* get_document, download_file, _extract_text, the empty-text check and
\* _create_text_chunks
PExtract(r) ==
    LET d == runs[r].document_id
        text == fileText[d]
    IN  /\ runs[r].pc = "extract"
        /\ \/ \E m \in StageErrors("download") \cup StageErrors("extract") : Fail(r, m)
           \/ text # NoFile /\ IsBlank(text) /\ Fail(r, NoTextMessage)
           \/ text # NoFile /\ ~IsBlank(text) /\ \E m \in StageErrors("chunk") : Fail(r, m)
           \/ /\ text # NoFile /\ ~IsBlank(text)
              /\ runs' = [runs EXCEPT ![r].pc = "save", ![r].chunks = CreateTextChunks(text)]
              /\ UNCHANGED documents
        /\ UNCHANGED <<chunkTable, indexFile, fileText, launches, completions, bulk, qaVars, vsCall, deletion, chunking, completion>>

\* repo.save_document_chunks(chunks)
PSaveChunks(r) ==
    LET d == runs[r].document_id
    IN  /\ runs[r].pc = "save"
        /\ \/ /\ \E m \in StageErrors("save") : Fail(r, m)
              /\ UNCHANGED chunkTable
           \/ /\ chunkTable' = [chunkTable EXCEPT ![d] = SaveDocumentChunks(@, runs[r].chunks)]
              /\ runs' = [runs EXCEPT ![r].pc = "embed", ![r].saved = TRUE,
                                      ![r].chunks = InsertedRows(chunkTable[d], @)]
              /\ UNCHANGED documents
        /\ UNCHANGED <<indexFile, fileText, launches, completions, bulk, qaVars, vsCall, deletion, chunking, completion>>

\* _generate_vector_embeddings, up to and including generate_embeddings(texts)
PEmbed(r) ==
    LET d == runs[r].document_id
        chunks == runs[r].chunks
    IN  /\ runs[r].pc = "embed"
        /\ \/ \E m \in StageErrors("embed") : Fail(r, m)
           \/ /\ chunks # <<>>
              /\ runs' = [runs EXCEPT ![r].pc = "index",
                                      ![r].embeddings = [i \in 1..Len(chunks) |->
                                                            FallbackEmbedding(chunks[i].content)]]
              /\ UNCHANGED documents
        /\ UNCHANGED <<chunkTable, indexFile, fileText, launches, completions, bulk, qaVars, vsCall, deletion, chunking, completion>>

\* the metadata list _generate_vector_embeddings builds for its chunks
Metadatas(d, chunks) ==
    [i \in 1..Len(chunks) |-> [chunk_index |-> chunks[i].chunk_index,
                               content |-> chunks[i].content,
                               document_id |-> d, chunk_id |-> chunks[i].id]]

\* PIndex with the vector store unavailable: the stage returns without
\* writing an index.
PIndexSkipped(r) ==
    /\ runs[r].pc = "index"
    /\ runs' = [runs EXCEPT ![r].pc = "complete", ![r].indexed = TRUE]
    /\ UNCHANGED <<documents, indexFile, chunkTable, fileText, launches, completions, bulk, qaVars, vsCall, deletion, chunking, completion>>

\* The two tests create_index makes before it opens the file: len(embeddings)
\* is not 0 and embeddings.shape[1] is embedding_dim.
ValidShape(embeddings) ==
    /\ Len(embeddings) # 0
    /\ \A i \in 1..Len(embeddings) : Len(embeddings[i]) = embedding_dim

\* generate_embeddings with a loaded model: what self.model.encode returns
\* for the chunks (the vectors of the fallback stand for a well-formed
\* output), cast to float32 and returned as it is.
EmbedderOutputs(chunks) ==
    LET good == [i \in 1..Len(chunks) |-> FallbackEmbedding(chunks[i].content)]
    IN  { good,
          [i \in 1..Len(chunks) |-> SubSeq(good[i], 1, embedding_dim - 1)],
          [i \in 1..Len(chunks) |-> IF i = 1 THEN [good[i] EXCEPT ![1] = NaN] ELSE good[i]] }

\* _generate_vector_embeddings up to and including generate_embeddings(texts)
\* and the two format tests (an ndarray, of two dimensions), with a loaded
\* model
PEmbedModel(r) ==
    LET d == runs[r].document_id
        chunks == runs[r].chunks
    IN  /\ runs[r].pc = "embed"
        /\ \/ \E m \in StageErrors("embed") : Fail(r, m)
           \/ /\ chunks # <<>>
              /\ \E embeddings \in EmbedderOutputs(chunks) :
                    runs' = [runs EXCEPT ![r].pc = "index", ![r].embeddings = embeddings]
              /\ UNCHANGED documents
        /\ UNCHANGED <<chunkTable, indexFile, fileText, launches, completions, bulk, qaVars,
                       vsCall, deletion, chunking, completion>>

\* vector_store.create_index(document_id, embeddings, metadatas): the file is
\* opened with 'wb' (truncated in place) and the pickle written into it; an
\* error while writing leaves the truncated file behind.
PIndex(r) ==
    LET d == runs[r].document_id
    IN  /\ runs[r].pc = "index"
        /\ \/ /\ \E m \in StageErrors("index") : Fail(r, m)
              /\ indexFile' = indexFile
           \/ /\ ValidShape(runs[r].embeddings)
              /\ \E m \in StageErrors("index") : Fail(r, m)
              /\ indexFile' = [indexFile EXCEPT ![d] = TornIndex]
           \/ /\ ValidShape(runs[r].embeddings)
              /\ indexFile' = [indexFile EXCEPT ![d] =
                                    IndexData(runs[r].embeddings, Metadatas(d, runs[r].chunks))]
              /\ runs' = [runs EXCEPT ![r].pc = "complete", ![r].indexed = TRUE]
              /\ UNCHANGED documents
        /\ UNCHANGED <<chunkTable, fileText, launches, completions, bulk, qaVars, vsCall, deletion, chunking, completion>>

\* update_processing_status(document_id, "completed", chunk_count=len(chunks))
PComplete(r) ==
    /\ runs[r].pc = "complete"
    /\ IF documents[runs[r].document_id].exists
       THEN /\ documents' = [documents EXCEPT ![runs[r].document_id] =
                                  UpdateProcessingStatus(@, "completed", None, Len(runs[r].chunks))]
            /\ runs' = [runs EXCEPT ![r].pc = "done"]
            /\ completions' = [completions EXCEPT ![runs[r].document_id] = @ + 1]
       ELSE /\ runs' = [runs EXCEPT ![r].pc = "failed", ![r].exc = "Document not found"]
            /\ UNCHANGED <<documents, completions>>
    /\ UNCHANGED <<chunkTable, indexFile, fileText, launches, bulk, qaVars, vsCall, deletion, chunking, completion>>

\* The awaits of process_document_content between the first and the last
\* update_processing_status: the places where a run can be cancelled.
InFlight == {"extract", "save", "embed", "index", "complete"}

\* Cancel with a handler that catches the cancellation like any other
\* exception and records the failure.
CancelCaught(r) ==
    /\ runs[r].pc \in InFlight
    /\ Fail(r, "CancelledError")
    /\ UNCHANGED <<chunkTable, indexFile, fileText, launches, completions, bulk, qaVars,
                   vsCall, deletion, chunking, completion>>

\* The task of a run is cancelled (server shutdown, the caller's task group)
\* while the run is suspended in an await: asyncio.CancelledError is raised
\* there.  It derives from BaseException (the code needs Python 3.9 for
\* asyncio.to_thread), so `except Exception` does not catch it and the run
\* ends without another update_processing_status.
Cancel(r) ==
    /\ runs[r].pc \in InFlight
    /\ runs' = [runs EXCEPT ![r].pc = "cancelled", ![r].exc = "CancelledError"]
    /\ UNCHANGED <<documents, chunkTable, indexFile, fileText, launches, completions, bulk,
                   qaVars, vsCall, deletion, chunking, completion>>

\* ------------------------------------------------- bulk_process_documents
NoBulk == [pc |-> "idle", ids |-> <<>>, semaphore |-> 0,
           successful |-> <<>>, failed |-> <<>>, total |-> 0]

BulkRunning(r) == runs[r].gate = 1

\* results = {...}; semaphore = asyncio.Semaphore(settings.max_concurrent_processing);
\* asyncio.gather(*[process_single(doc_id) for doc_id in document_ids]):
\* task i runs in run slot i.
BulkProcessDocuments(ids) ==
    /\ bulk.pc = "idle"
    /\ \A i \in 1..Len(ids) : runs[i].pc = "idle"
    /\ bulk' = [NoBulk EXCEPT !.pc = "gather", !.ids = ids, !.total = Len(ids),
                              !.semaphore = max_concurrent_processing]
    /\ runs' = [r \in RunIds |-> IF r <= Len(ids)
                                 THEN [IdleRun EXCEPT !.pc = "waiting", !.gate = 1,
                                                      !.document_id = ids[r]]
                                 ELSE runs[r]]
    /\ UNCHANGED <<documents, chunkTable, indexFile, fileText, launches, completions, qaVars, vsCall, deletion, chunking, completion>>

\* process_single: async with semaphore (acquire)
ProcessSingleAcquire(r) ==
    /\ BulkRunning(r) /\ runs[r].pc = "waiting"
    /\ bulk.semaphore > 0
    /\ bulk' = [bulk EXCEPT !.semaphore = @ - 1]
    /\ runs' = [runs EXCEPT ![r].pc = "scheduled"]
    /\ UNCHANGED <<documents, chunkTable, indexFile, fileText, launches, completions, qaVars, vsCall, deletion, chunking, completion>>

\* ProcessSingleEnd without the try/except of process_single: the exception
\* of a failing run leaves the task unrecorded.
ProcessSingleEndUncaught(r) ==
    /\ BulkRunning(r) /\ runs[r].pc \in {"done", "failed"}
    /\ bulk' = [bulk EXCEPT
                   !.successful = IF runs[r].pc = "done"
                                  THEN Append(@, runs[r].document_id) ELSE @,
                   !.semaphore = @ + 1]
    /\ runs' = [runs EXCEPT ![r].pc = IF runs[r].pc = "done" THEN "reported_ok"
                                      ELSE "reported_failed"]
    /\ UNCHANGED <<documents, chunkTable, indexFile, fileText, launches, completions, qaVars, vsCall, deletion, chunking, completion>>

\* process_single: after process_document_content returned or raised, record
\* the outcome and leave the async with block (release)
ProcessSingleEnd(r) ==
    /\ BulkRunning(r) /\ runs[r].pc \in {"done", "failed"}
    /\ bulk' = [bulk EXCEPT
                   !.successful = IF runs[r].pc = "done"
                                  THEN Append(@, runs[r].document_id) ELSE @,
                   !.failed = IF runs[r].pc = "failed"
                              THEN Append(@, [document_id |-> runs[r].document_id,
                                              error |-> runs[r].exc])
                              ELSE @,
                   !.semaphore = @ + 1]
    /\ runs' = [runs EXCEPT ![r].pc = IF runs[r].pc = "done" THEN "reported_ok"
                                      ELSE "reported_failed"]
    /\ UNCHANGED <<documents, chunkTable, indexFile, fileText, launches, completions, qaVars, vsCall, deletion, chunking, completion>>

\* gather returned: return results
BulkReturn ==
    /\ bulk.pc = "gather"
    /\ \A r \in RunIds : BulkRunning(r) => runs[r].pc \in {"reported_ok", "reported_failed"}
    /\ bulk' = [bulk EXCEPT !.pc = "returned"]
    /\ UNCHANGED <<documents, chunkTable, indexFile, fileText, runs, launches, completions, qaVars, vsCall, deletion, chunking, completion>>

\* context_window of DocumentQARequest: ge=1000, le=8000 tokens, against
\* settings.chunk_size = 400; the two ends of the range in chunk sizes, one
\* symbol of a chunk counting as one token.
ContextWindows == { (5 * chunk_size) \div 2, 20 * chunk_size }

\* ------------------------------------------------------------ vector search
min_relevance_percent == 30   \* threshold=0.3 of ask_question, in percent

\* _load_index: None when the file is missing and when it cannot be unpickled
LoadIndex(file) == IF file.state = "complete" THEN file ELSE NoIndex

\* A score is the number num / sqrt(den2), den2 > 0, kept exact.
\* Similarity(e, q) is the inner product of the stored vector e (normalised
\* by create_index, a zero vector left as it is) and q / |q|.
Similarity(e, q) ==
    [num |-> Dot(e, q), den2 |-> (IF Norm2(e) = 0 THEN 1 ELSE Norm2(e)) * Norm2(q)]

\* np.dot(embeddings, query_embedding): the score of every stored vector
RECURSIVE Similarities(_, _)
Similarities(E, q) ==
    IF E = <<>> THEN <<>> ELSE <<Similarity(Head(E), q)>> \o Similarities(Tail(E), q)

\* a < b for two scores
ScoreLess(a, b) ==
    IF a.num < 0 /\ b.num >= 0 THEN TRUE
    ELSE IF a.num >= 0 /\ b.num < 0 THEN FALSE
    ELSE IF a.num >= 0 THEN a.num * a.num * b.den2 < b.num * b.num * a.den2
    ELSE a.num * a.num * b.den2 > b.num * b.num * a.den2

\* the score of a threshold given in percent
PercentScore(p) == [num |-> p, den2 |-> 10000]

\* np.argsort(similarities), default kind 'quicksort': an ascending order of
\* the scores.  The sort is not stable, so the order of entries with equal
\* scores is whatever the build's sort gives (insertion sort on short arrays
\* keeps them in index order, the vectorised sorts do not): every ascending
\* order is a possible outcome.
ArgsortOrders(similarities) ==
    LET n == Len(similarities)
    IN  { o \in Permutations(1..n) :
            \A p \in 1..(n - 1) : ~ScoreLess(similarities[o[p + 1]], similarities[o[p]]) }

\* SearchResults with the threshold test turned round: an entry is kept when
\* its score is at most the threshold.
SearchResultsBelow(data, similarities, Asc, k, threshold_percent) ==
    LET n == Len(similarities)
        Desc == [p \in 1..n |-> Asc[n + 1 - p]]
        top_k_indices == SubSeq(Desc, 1, Min(k, n))
        Clears(i) == ~ScoreLess(PercentScore(threshold_percent), similarities[i])
        kept == SelectSeq(top_k_indices, Clears)
    IN  [p \in 1..Len(kept) |->
           [chunk_index |-> data.metadata[kept[p]].chunk_index,
            content |-> data.metadata[kept[p]].content,
            chunk_id |-> data.metadata[kept[p]].chunk_id,
            relevance_score |-> similarities[kept[p]]]]

\* search, from the sorted indices on: [::-1][:k], the threshold filter and
\* the result dictionaries
SearchResults(data, similarities, Asc, k, threshold_percent) ==
    LET n == Len(similarities)
        Desc == [p \in 1..n |-> Asc[n + 1 - p]]
        top_k_indices == SubSeq(Desc, 1, Min(k, n))
        Clears(i) == ~ScoreLess(similarities[i], PercentScore(threshold_percent))
        kept == SelectSeq(top_k_indices, Clears)
    IN  [p \in 1..Len(kept) |->
           [chunk_index |-> data.metadata[kept[p]].chunk_index,
            content |-> data.metadata[kept[p]].content,
            chunk_id |-> data.metadata[kept[p]].chunk_id,
            relevance_score |-> similarities[kept[p]]]]

\* Search without the argsort: the first k entries in stored order.
SearchUnranked(file, q, k, threshold_percent) ==
    LET data == LoadIndex(file)
    IN  IF data.state # "complete" THEN {<<>>}
        ELSE IF Norm2(q) = 0 THEN {<<>>}
        ELSE LET similarities == Similarities(data.embeddings, q)
                 n == Len(similarities)
             IN  {SearchResults(data, similarities, [p \in 1..n |-> n + 1 - p],
                                k, threshold_percent)}

\* SimpleVectorStore.search: the set of lists the call may return (one list
\* unless entries tie).
Search(file, q, k, threshold_percent) ==
    LET data == LoadIndex(file)
    IN  IF data.state # "complete" THEN {<<>>}
        ELSE IF Norm2(q) = 0 THEN {<<>>}
        ELSE LET similarities == Similarities(data.embeddings, q)
             IN  { SearchResults(data, similarities, Asc, k, threshold_percent) :
                       Asc \in ArgsortOrders(similarities) }

\* SimpleVectorStore.index_exists: the file is there, readable or not
IndexExists(file) == file.state # "absent"

\* ------------------------------------------------------ vector store calls
\* One call of the store as its caller sees it: the arguments, the state of
\* the document's index file when the call was made, and what came back.
NoCall == [op |-> "none", document_id |-> 0, outcome |-> "none", before |-> "absent",
           embeddings |-> <<>>, metadata |-> <<>>,
           query |-> <<>>, k |-> 0, threshold |-> 0, results |-> <<>>]

\* create_index: the outcomes of one call on a document whose file is `file`.
\* The two tests come before the file is opened; the write itself either
\* completes or is cut short after open(index_path, 'wb') truncated the file.
CreateOutcomes(file, embeddings, metadata) ==
    IF Len(embeddings) = 0 THEN {[outcome |-> "error", file |-> file]}
    ELSE IF Len(embeddings[1]) # embedding_dim THEN {[outcome |-> "error", file |-> file]}
    ELSE {[outcome |-> "ok", file |-> IndexData(embeddings, metadata)],
          [outcome |-> "error", file |-> TornIndex]}

\* update_index: _load_index, and create_index on the new vectors alone when
\* it gave None, else on the stored entries followed by the new ones
UpdateOutcomes(file, embeddings, metadata) ==
    LET existing_data == LoadIndex(file)
    IN  IF existing_data.state # "complete"
        THEN CreateOutcomes(file, embeddings, metadata)
        ELSE IF Len(embeddings) = 0
        THEN {[outcome |-> "error", file |-> file]}
             \cup CreateOutcomes(file, existing_data.embeddings, existing_data.metadata)
        ELSE IF Len(embeddings[1]) # embedding_dim
        THEN {[outcome |-> "error", file |-> file]}
        ELSE CreateOutcomes(file,
                            existing_data.embeddings
                                \o [i \in 1..Len(embeddings) |-> Normalize(embeddings[i])],
                            existing_data.metadata \o metadata)

CreateIndex(d, embeddings, metadata) ==
    /\ \E o \in CreateOutcomes(indexFile[d], embeddings, metadata) :
          /\ indexFile' = [indexFile EXCEPT ![d] = o.file]
          /\ vsCall' = [NoCall EXCEPT !.op = "create_index", !.document_id = d, !.before = indexFile[d].state,
                                      !.outcome = o.outcome,
                                      !.embeddings = embeddings, !.metadata = metadata]
    /\ UNCHANGED <<documents, chunkTable, fileText, runs, launches, completions, bulk,
                   qaVars, deletion, chunking, completion>>

UpdateIndex(d, embeddings, metadata) ==
    /\ \E o \in UpdateOutcomes(indexFile[d], embeddings, metadata) :
          /\ indexFile' = [indexFile EXCEPT ![d] = o.file]
          /\ vsCall' = [NoCall EXCEPT !.op = "update_index", !.document_id = d, !.before = indexFile[d].state,
                                      !.outcome = o.outcome,
                                      !.embeddings = embeddings, !.metadata = metadata]
    /\ UNCHANGED <<documents, chunkTable, fileText, runs, launches, completions, bulk,
                   qaVars, deletion, chunking, completion>>

\* DeleteIndex that removes the file without asking os.path.exists first:
\* os.remove raises FileNotFoundError when there is no file.
DeleteIndexUnchecked(d) ==
    /\ indexFile' = [indexFile EXCEPT ![d] = NoIndex]
    /\ vsCall' = [NoCall EXCEPT !.op = "delete_index", !.document_id = d,
                                !.before = indexFile[d].state,
                                !.outcome = IF IndexExists(indexFile[d]) THEN "ok" ELSE "error"]
    /\ UNCHANGED <<documents, chunkTable, fileText, runs, launches, completions, bulk,
                   qaVars, deletion, chunking, completion>>

\* delete_index: os.remove when os.path.exists (os.remove of a file that is
\* there is taken to succeed)
DeleteIndex(d) ==
    /\ indexFile' = [indexFile EXCEPT ![d] = IF IndexExists(@) THEN NoIndex ELSE @]
    /\ vsCall' = [NoCall EXCEPT !.op = "delete_index", !.document_id = d, !.before = indexFile[d].state,
                                !.outcome = "ok"]
    /\ UNCHANGED <<documents, chunkTable, fileText, runs, launches, completions, bulk,
                   qaVars, deletion, chunking, completion>>

\* rebuild_index: delete_index, then create_index on what delete_index left
RebuildOutcomes(file, embeddings, metadata) ==
    CreateOutcomes(IF IndexExists(file) THEN NoIndex ELSE file, embeddings, metadata)

RebuildIndex(d, embeddings, metadata) ==
    /\ \E o \in RebuildOutcomes(indexFile[d], embeddings, metadata) :
          /\ indexFile' = [indexFile EXCEPT ![d] = o.file]
          /\ vsCall' = [NoCall EXCEPT !.op = "rebuild_index", !.document_id = d, !.before = indexFile[d].state,
                                      !.outcome = o.outcome,
                                      !.embeddings = embeddings, !.metadata = metadata]
    /\ UNCHANGED <<documents, chunkTable, fileText, runs, launches, completions, bulk,
                   qaVars, deletion, chunking, completion>>

\* search, called on its own
SearchIndex(d, q, k, threshold_percent) ==
    /\ \E results \in Search(indexFile[d], q, k, threshold_percent) :
          vsCall' = [NoCall EXCEPT !.op = "search", !.document_id = d, !.before = indexFile[d].state, !.outcome = "ok",
                                  !.query = q, !.k = k, !.threshold = threshold_percent,
                                  !.results = results]
    /\ UNCHANGED <<documents, chunkTable, indexFile, fileText, runs, launches,
                   completions, bulk, qaVars, deletion, chunking, completion>>

\* ------------------------------------------------------ question answering
Questions == { <<"b", "b", "b">>, <<>> }

\* answers of the completion provider, by the features that
\* _calculate_confidence_score reads
Answers ==
    { [text |-> "According to Context 1 ...", length |-> 150, cites_context |-> TRUE,
       uncertain |-> FALSE, not_found |-> FALSE],
      [text |-> "No information.", length |-> 15, cites_context |-> FALSE,
       uncertain |-> FALSE, not_found |-> TRUE] }

NoAnswer == [text |-> None, length |-> 0, cites_context |-> FALSE,
             uncertain |-> FALSE, not_found |-> FALSE]
NotFoundAnswer ==
    [text |-> "I couldn't find relevant information in the document to answer your question.",
     length |-> 77, cites_context |-> FALSE, uncertain |-> FALSE, not_found |-> FALSE]

\* CalculateConfidenceScore with the uncertainty penalty added to the score
\* instead of taken from it.
CalculateConfidenceScoreSigned(answer, context_chunks) ==
    LET score == 50
                 + (IF answer.length > 100 THEN 10 ELSE 0)
                 + (IF answer.length > 200 THEN 10 ELSE 0)
                 + (IF answer.cites_context THEN 20 ELSE 0)
                 + (IF answer.uncertain THEN 20 ELSE 0)
                 - (IF answer.not_found THEN 30 ELSE 0)
                 + (IF Len(context_chunks) >= 3 THEN 10 ELSE 0)
    IN  IF score < 0 THEN 0 ELSE IF score > 100 THEN 100 ELSE score

\* _calculate_confidence_score, in percent
CalculateConfidenceScore(answer, context_chunks) ==
    LET score == 50
                 + (IF answer.length > 100 THEN 10 ELSE 0)
                 + (IF answer.length > 200 THEN 10 ELSE 0)
                 + (IF answer.cites_context THEN 20 ELSE 0)
                 - (IF answer.uncertain THEN 20 ELSE 0)
                 - (IF answer.not_found THEN 30 ELSE 0)
                 + (IF Len(context_chunks) >= 3 THEN 10 ELSE 0)
    IN  IF score < 0 THEN 0 ELSE IF score > 100 THEN 100 ELSE score

NoResponse == [answer |-> NoAnswer, confidence_score |-> -1, sources |-> <<>>,
               chunks_used |-> -1]
NotFoundResponse == [answer |-> NotFoundAnswer, confidence_score |-> 0, sources |-> <<>>,
                     chunks_used |-> 0]

NoAsk == [pc |-> "idle", document_id |-> 0, question |-> <<>>, max_chunks |-> 0,
          include_sources |-> TRUE, context_window |-> 0, context |-> <<>>,
          query |-> <<>>, results |-> <<>>, loaded |-> None,
          searched |-> FALSE, provider_calls |-> 0,
          response |-> NoResponse, error |-> None]

\* Document.is_processed
IsProcessed(doc) == doc.processing_status = "completed"

NotProcessedMessage == "Document is not yet processed"
StillProcessingMessage == "Document is still processing. Please try again later."

\* except Exception as e: raise DocumentQAError(f"Failed to process question: {str(e)}")
AskError(m) ==
    ask' = [ask EXCEPT !.pc = "error", !.error = "Failed to process question: " \o m]

\* a request arrives at POST /documents/{id}/ask of document_qa.py
AskQuestion(d, q, k, inc, context_window) ==
    /\ ask.pc \in {"idle", "returned", "error"}
    /\ calls < MaxAsks
    /\ ask' = [NoAsk EXCEPT !.pc = "check", !.document_id = d, !.question = q,
                            !.max_chunks = k, !.include_sources = inc,
                            !.context_window = context_window]
    /\ calls' = calls + 1
    /\ UNCHANGED <<documents, chunkTable, indexFile, fileText, runs, launches,
                   completions, bulk, interactions, vsCall, deletion, chunking, completion>>

\* ask_question without the is_processed test
AskCheckUnguarded ==
    /\ ask.pc = "check"
    /\ LET doc == documents[ask.document_id]
       IN  IF ~doc.exists THEN AskError("Document not found")
           ELSE \/ AskError("Access denied to document")
                \/ ask' = [ask EXCEPT !.pc = "embed"]
    /\ UNCHANGED <<documents, chunkTable, indexFile, fileText, runs, launches,
                   completions, bulk, interactions, calls, vsCall, deletion, chunking, completion>>

\* ask_question: get_document, is_processed, _check_document_access (whose
\* answer depends on the owner, is_public and the shares of the document)
AskCheck ==
    /\ ask.pc = "check"
    /\ LET doc == documents[ask.document_id]
       IN  IF ~doc.exists THEN AskError("Document not found")
           ELSE IF ~IsProcessed(doc) THEN AskError(NotProcessedMessage)
           ELSE \/ AskError("Access denied to document")
                \/ ask' = [ask EXCEPT !.pc = "embed"]
    /\ UNCHANGED <<documents, chunkTable, indexFile, fileText, runs, launches,
                   completions, bulk, interactions, calls, vsCall, deletion, chunking, completion>>

\* ask_question: generate_single_embedding(question)
AskEmbed ==
    /\ ask.pc = "embed"
    /\ \/ AskError("Failed to generate single embedding: e")
       \/ ask' = [ask EXCEPT !.pc = "search", !.query = FallbackEmbedding(ask.question)]
    /\ UNCHANGED <<documents, chunkTable, indexFile, fileText, runs, launches,
                   completions, bulk, interactions, calls, vsCall, deletion, chunking, completion>>

\* ask_question in which an empty search result goes on to the provider
AskSearchNoShortcut ==
    /\ ask.pc = "search"
    /\ \E search_results \in Search(indexFile[ask.document_id], ask.query,
                                     ask.max_chunks, min_relevance_percent) :
         LET file == indexFile[ask.document_id]
         IN  ask' = [ask EXCEPT !.pc = "generate", !.searched = TRUE,
                                !.loaded = LoadIndex(file).state,
                                !.results = search_results]
    /\ UNCHANGED <<documents, chunkTable, indexFile, fileText, runs, launches,
                   completions, bulk, interactions, calls, vsCall, deletion, chunking, completion>>

\* ask_question: vector_store.search and the no-results return
AskSearch ==
    /\ ask.pc = "search"
    /\ \E search_results \in Search(indexFile[ask.document_id], ask.query,
                                     ask.max_chunks, min_relevance_percent) :
         LET file == indexFile[ask.document_id]
         IN
           \/ ask' = [ask EXCEPT !.pc = "error", !.searched = TRUE,
                         !.error = "Failed to process question: Failed to search simple vector store: e"]
           \/ /\ search_results = <<>>
              /\ ask' = [ask EXCEPT !.pc = "returned", !.searched = TRUE,
                                    !.loaded = LoadIndex(file).state,
                                    !.response = NotFoundResponse]
           \/ /\ search_results # <<>>
              /\ ask' = [ask EXCEPT !.pc = "generate", !.searched = TRUE,
                                    !.loaded = LoadIndex(file).state,
                                    !.results = search_results]
    /\ UNCHANGED <<documents, chunkTable, indexFile, fileText, runs, launches,
                   completions, bulk, interactions, calls, vsCall, deletion, chunking, completion>>

\* POST /{document_id}/ask of documents.py: get_user_document, the status
\* test, get_document_vector_store, and DocumentQAAgent.answer_question, which
\* is handed the boolean of index_exists as its vector store and raises on
\* similarity_search_with_score; the handler writes nothing.
AskViaDocuments(d) ==
    /\ ask.pc \in {"idle", "returned", "error"}
    /\ calls < MaxAsks
    /\ LET doc == documents[d]
           detail == IF ~doc.exists THEN {"Document not found"}
                     ELSE IF doc.processing_status # "completed"
                          THEN {StillProcessingMessage}
                     ELSE IF ~IndexExists(indexFile[d])
                          THEN {"Document not found", "Document vector store not available"}
                     ELSE {"Document not found", "Failed to answer question"}
       IN  \E m \in detail :
             ask' = [NoAsk EXCEPT !.pc = "error", !.document_id = d, !.error = m]
    /\ calls' = calls + 1
    /\ UNCHANGED <<documents, chunkTable, indexFile, fileText, runs, launches,
                   completions, bulk, interactions, vsCall, deletion, chunking, completion>>

\* ContextSource of each result, when include_sources
Sources(results, include_sources) ==
    IF include_sources
    THEN [i \in 1..Len(results) |->
            [chunk_id |-> results[i].chunk_id, content_preview |-> results[i].content]]
    ELSE <<>>

\* _generate_answer: context_text, the "[Context i]" blocks of all the
\* chunks joined by blank lines (a tag and a separator count as one symbol
\* each)
RECURSIVE ContextBlocks(_, _)
ContextBlocks(context_chunks, i) ==
    IF i > Len(context_chunks) THEN <<>>
    ELSE (IF i = 1 THEN <<>> ELSE <<"\n\n">>)
            \o <<"[Context i]">> \o context_chunks[i]
            \o ContextBlocks(context_chunks, i + 1)
ContextText(context_chunks) == ContextBlocks(context_chunks, 1)

\* ask_question: context_chunks of the search results and _generate_answer
\* (one create_chat_completion call, whose system prompt holds context_text)
AskGenerate ==
    /\ ask.pc = "generate"
    /\ \/ ask' = [ask EXCEPT !.pc = "error", !.provider_calls = @ + 1,
                     !.context = ContextText([i \in 1..Len(ask.results) |->
                                                ask.results[i].content]),
                     !.error = "Failed to process question: Failed to generate answer: e"]
       \/ \E answer \in Answers :
            ask' = [ask EXCEPT
                      !.pc = "save", !.provider_calls = @ + 1,
                      !.context = ContextText([i \in 1..Len(ask.results) |->
                                                 ask.results[i].content]),
                      !.response = [answer |-> answer,
                                    confidence_score |->
                                        CalculateConfidenceScore(answer, ask.results),
                                    sources |-> Sources(ask.results, ask.include_sources),
                                    chunks_used |-> Len(ask.results)]]
    /\ UNCHANGED <<documents, chunkTable, indexFile, fileText, runs, launches,
                   completions, bulk, interactions, calls, vsCall, deletion, chunking, completion>>

\* ask_question: repo.save_qa_interaction(interaction), return response
AskSave ==
    /\ ask.pc = "save"
    /\ \/ /\ AskError("Failed to save interaction: e")
          /\ UNCHANGED interactions
       \/ /\ interactions' = Append(interactions,
                                [document_id |-> ask.document_id,
                                 question |-> ask.question,
                                 answer |-> ask.response.answer,
                                 confidence_score |-> ask.response.confidence_score,
                                 chunks_used |-> Len(ask.results)])
          /\ ask' = [ask EXCEPT !.pc = "returned"]
    /\ UNCHANGED <<documents, chunkTable, indexFile, fileText, runs, launches,
                   completions, bulk, calls, vsCall, deletion, chunking, completion>>

\* ----------------------------------- GroqService.create_chat_completion
\* settings.fallback_groq_keys, and the key of GROQ_API_KEY or of the
\* constructor, which is none of them
FallbackKeys == 1..NumKeys
EnvKey == 0
Exhausted == "All fallback API keys exhausted"

NoCompletion == [pc |-> "idle", error |-> None, api_key |-> None, key |-> EnvKey,
                 depth |-> 0, tried |-> <<>>]

\* create_chat_completion(messages, ..., api_key) on a service whose
\* self.api_key is `key`, up to the provider call
CreateChatCompletion(key, api_key) ==
    /\ completion.pc = "idle"
    /\ completion' = [NoCompletion EXCEPT !.pc = "attempt", !.api_key = api_key,
                                          !.key = key, !.tried = <<key>>]
    /\ UNCHANGED <<documents, chunkTable, indexFile, fileText, runs, launches, completions,
                   bulk, qaVars, vsCall, deletion, chunking>>

\* the provider answered within the 30 seconds
CompletionReturns ==
    /\ completion.pc = "attempt"
    /\ completion' = [completion EXCEPT !.pc = "returned"]
    /\ UNCHANGED <<documents, chunkTable, indexFile, fileText, runs, launches, completions,
                   bulk, qaVars, vsCall, deletion, chunking>>

\* The provider call timed out or raised: the two except branches.  With a
\* caller-supplied api_key or no fallback keys the error is raised; else
\* _retry_with_different_key takes a random fallback key other than
\* self.api_key, raises Exhausted when there is none, and calls
\* create_chat_completion again from inside the handler, one level deeper
\* (the interpreter raises RecursionError at its recursion limit, and an
\* exception raised inside a handler leaves every enclosing call).
CompletionFails(kind) ==
    /\ completion.pc = "attempt"
    /\ IF completion.api_key # None \/ FallbackKeys = {}
       THEN completion' = [completion EXCEPT !.pc = "raised", !.error = kind]
       ELSE LET available_keys == FallbackKeys \ {completion.key}
            IN  IF available_keys = {}
                THEN completion' = [completion EXCEPT !.pc = "raised", !.error = Exhausted]
                ELSE IF completion.depth + 1 >= RecursionLimit
                THEN completion' = [completion EXCEPT !.pc = "raised",
                                                      !.error = "RecursionError"]
                ELSE \E new_key \in available_keys :
                        completion' = [completion EXCEPT !.key = new_key, !.depth = @ + 1,
                                                         !.tried = Append(@, new_key)]
    /\ UNCHANGED <<documents, chunkTable, indexFile, fileText, runs, launches, completions,
                   bulk, qaVars, vsCall, deletion, chunking>>

FailureKinds == {"Groq API timeout - request took too long", "Groq API error: e"}

\* ------------------------------------------- DocumentService.delete_document
NoDeletion == [pc |-> "idle", document_id |-> 0, calls |-> 0,
               file_error |-> FALSE, index_error |-> FALSE, error |-> None]

\* delete_document: repo.get_document and the `if not document` test
DeleteDocument(d) ==
    /\ deletion.pc \in {"idle", "returned", "error"}
    /\ deletion.calls < MaxDeletes
    /\ deletion' = [NoDeletion EXCEPT
                       !.document_id = d,
                       !.calls = deletion.calls + 1,
                       !.pc = IF documents[d].exists THEN "file" ELSE "error",
                       !.error = IF documents[d].exists THEN None
                                 ELSE "Failed to delete document: Document not found"]
    /\ UNCHANGED <<documents, chunkTable, indexFile, fileText, runs, launches, completions,
                   bulk, qaVars, vsCall, chunking, completion>>

\* file_service.delete_file(document.file_path) inside its own try/except:
\* a failure is logged and the handler goes on
DeleteFile ==
    /\ deletion.pc = "file"
    /\ \/ /\ fileText' = [fileText EXCEPT ![deletion.document_id] = NoFile]
          /\ deletion' = [deletion EXCEPT !.pc = "index"]
       \/ /\ fileText' = fileText
          /\ deletion' = [deletion EXCEPT !.pc = "index", !.file_error = TRUE]
    /\ UNCHANGED <<documents, chunkTable, indexFile, runs, launches, completions,
                   bulk, qaVars, vsCall, chunking, completion>>

\* vector_store.delete_index(document_id) inside its own try/except: the
\* file is removed when it is there; a failure of os.remove is logged and the
\* handler goes on
DeleteStoreIndex ==
    /\ deletion.pc = "index"
    /\ \/ /\ indexFile' = [indexFile EXCEPT ![deletion.document_id] =
                                IF IndexExists(@) THEN NoIndex ELSE @]
          /\ deletion' = [deletion EXCEPT !.pc = "rows"]
       \/ /\ IndexExists(indexFile[deletion.document_id])
          /\ indexFile' = indexFile
          /\ deletion' = [deletion EXCEPT !.pc = "rows", !.index_error = TRUE]
    /\ UNCHANGED <<documents, chunkTable, fileText, runs, launches, completions,
                   bulk, qaVars, vsCall, chunking, completion>>

\* repo.delete_document(document_id): False when the row is gone; else the
\* chunk rows, the interaction rows and the document row are deleted and
\* committed; an SQLAlchemyError rolls back and is re-raised
DeleteRows ==
    LET d == deletion.document_id
        OfOthers(row) == row.document_id # d
    IN  /\ deletion.pc = "rows"
        /\ \/ /\ deletion' = [deletion EXCEPT !.pc = "error",
                      !.error = "Failed to delete document: Failed to delete document: e"]
              /\ UNCHANGED <<documents, chunkTable, interactions>>
           \/ /\ ~documents[d].exists
              /\ deletion' = [deletion EXCEPT !.pc = "returned"]
              /\ UNCHANGED <<documents, chunkTable, interactions>>
           \/ /\ documents[d].exists
              /\ documents' = [documents EXCEPT ![d] = NoDocument]
              /\ chunkTable' = [chunkTable EXCEPT ![d] = <<>>]
              /\ interactions' = SelectSeq(interactions, OfOthers)
              /\ deletion' = [deletion EXCEPT !.pc = "returned"]
        /\ UNCHANGED <<indexFile, fileText, runs, launches, completions, bulk,
                       ask, calls, vsCall, chunking, completion>>

\* ----------------------------------------------------------- specification
Init ==
    /\ documents = [d \in Docs |-> NoDocument]
    /\ chunkTable = [d \in Docs |-> <<>>]
    /\ indexFile = [d \in Docs |-> NoIndex]
    /\ fileText = [d \in Docs |-> <<>>]
    /\ runs = [r \in RunIds |-> IdleRun]
    /\ launches = 0
    /\ completions = [d \in Docs |-> 0]
    /\ bulk = NoBulk
    /\ ask = NoAsk
    /\ interactions = <<>>
    /\ calls = 0
    /\ vsCall = NoCall
    /\ deletion = NoDeletion
    /\ chunking = NoChunking
    /\ completion = NoCompletion

Next ==
    \/ \E d \in PipeDocs, t \in Texts, r \in PipeRuns : Upload(d, t, r)
    \/ \E d \in PipeDocs, r \in PipeRuns : Reprocess(d, r)
    \/ \E r \in PipeRuns : PStart(r)
    \/ \E r \in PipeRuns : PExtract(r)
    \/ \E r \in PipeRuns : PSaveChunks(r)
    \/ \E r \in PipeRuns : PEmbed(r)
    \/ \E r \in PipeRuns : PIndex(r)
    \/ \E r \in PipeRuns : PComplete(r)

Spec == Init /\ [][Next]_vars

\* The bulk specification starts after the documents of BulkDocs were
\* uploaded and the background run of each upload failed in download_file.
BulkDocs == 1..(NumDocs - 1)
TextSeq == << <<"a", "a", "a">>, <<"a", "b", "b", "b">>, <<" ", " ">> >>
BulkText(d) == TextSeq[((d - 1) % 3) + 1]
FailedUpload == [NoDocument EXCEPT !.exists = TRUE, !.processing_status = "failed",
                                   !.error_message = "Failed to download file: e"]

\* document_ids of the bulk call: the documents but the last, or one more id
\* than the semaphore admits with one document twice and an id without a row
BulkInputs == { [i \in 1..(NumDocs - 2) |-> i], <<1, 1, 2, NumDocs>> }

InitBulk ==
    /\ documents = [d \in Docs |-> IF d \in BulkDocs THEN FailedUpload ELSE NoDocument]
    /\ chunkTable = [d \in Docs |-> <<>>]
    /\ indexFile = [d \in Docs |-> NoIndex]
    /\ fileText = [d \in Docs |-> IF d \in BulkDocs THEN BulkText(d) ELSE <<>>]
    /\ runs = [r \in RunIds |-> IdleRun]
    /\ launches = 0
    /\ completions = [d \in Docs |-> 0]
    /\ bulk = NoBulk
    /\ ask = NoAsk
    /\ interactions = <<>>
    /\ calls = 0
    /\ vsCall = NoCall
    /\ deletion = NoDeletion
    /\ chunking = NoChunking
    /\ completion = NoCompletion

BulkPipeline ==
    \E r \in RunIds :
        \/ PStart(r)
        \/ PExtract(r)
        \/ PSaveChunks(r)
        \/ PEmbed(r)
        \/ PIndex(r)
        \/ PComplete(r)

NextBulk ==
    \/ \E ids \in BulkInputs : BulkProcessDocuments(ids)
    \/ \E r \in RunIds : ProcessSingleAcquire(r)
    \/ \E r \in RunIds : ProcessSingleEnd(r)
    \/ BulkReturn
    \/ BulkPipeline

SpecBulk == InitBulk /\ [][NextBulk]_vars

\* A bulk call on as many documents as the semaphore admits, next to the
\* background run that reprocess_document starts for one more document
\* (the last run slot).
GateInput == [i \in 1..max_concurrent_processing |-> i]
GateDoc == NumDocs - 1

NextGate ==
    \/ BulkProcessDocuments(GateInput)
    \/ \E r \in RunIds : ProcessSingleAcquire(r)
    \/ \E r \in RunIds : ProcessSingleEnd(r)
    \/ BulkReturn
    \/ BulkPipeline
    \/ Reprocess(GateDoc, NumRuns)

SpecGate == InitBulk /\ [][NextGate]_vars

\* Questions on one document while it is uploaded, processed and reprocessed
\* by one background run at a time.
QADoc == 1
QARun == 1

NextQA ==
    \/ \E t \in Texts : Upload(QADoc, t, QARun)
    \/ Reprocess(QADoc, QARun)
    \/ PStart(QARun)
    \/ PExtract(QARun)
    \/ PSaveChunks(QARun)
    \/ PEmbed(QARun)
    \/ PIndex(QARun)
    \/ PComplete(QARun)
    \/ \E q \in Questions, k \in 1..MaxK, inc \in BOOLEAN, cw \in ContextWindows :
          AskQuestion(QADoc, q, k, inc, cw)
    \/ AskCheck
    \/ AskEmbed
    \/ AskSearch
    \/ AskGenerate
    \/ AskSave
    \/ AskViaDocuments(QADoc)

SpecQA == Init /\ [][NextQA]_vars

\* The vector store on its own: calls of create_index, update_index,
\* delete_index and search on one document, next to a second document whose
\* index is created and deleted.
StoreDoc == 1
OtherDoc == 2
StoreVectors == { <<1, 0, 0>>, <<1, 1, 0>>, <<-1, 0, 0>> }
WrongDimVector == <<1, 0>>
StoreQueries == { <<1, 0, 0>>, <<0, 1, 0>>, <<0, 0, 0>> }
StoreThresholds == {-100, 0, min_relevance_percent}
MaxEntries == MaxVecs + 1

SeqsUpTo(S, n) == UNION {[1..m -> S] : m \in 0..n}
StoreInputs == SeqsUpTo(StoreVectors, MaxVecs) \cup {<<WrongDimVector>>}
OtherInputs == {<<<<1, 0, 0>>>>}

\* metadata as the pipeline builds it: one entry per vector, numbered on
\* from the entries the index already holds
StoreMetadata(d, base, embeddings) ==
    [i \in 1..Len(embeddings) |->
        [chunk_index |-> base + i - 1, content |-> <<"a">>, document_id |-> d,
         chunk_id |-> base + i]]

StoredCount(d) == Len(LoadIndex(indexFile[d]).embeddings)

\* a caller that creates the index of d from the vectors E
StoreCreate(d, E) == CreateIndex(d, E, StoreMetadata(d, 0, E))

\* a caller that appends the vectors E to the index of d
StoreUpdate(d, E) ==
    /\ StoredCount(d) + Len(E) <= MaxEntries
    /\ UpdateIndex(d, E, StoreMetadata(d, StoredCount(d), E))

NextStore ==
    \/ \E E \in StoreInputs : StoreCreate(StoreDoc, E)
    \/ \E E \in StoreInputs : StoreUpdate(StoreDoc, E)
    \/ \E d \in {StoreDoc, OtherDoc} : DeleteIndex(d)
    \/ \E q \in StoreQueries, k \in 1..MaxK, t \in StoreThresholds :
          SearchIndex(StoreDoc, q, k, t)
    \/ \E E \in OtherInputs : StoreCreate(OtherDoc, E)

SpecStore == Init /\ [][NextStore]_vars

\* --------- specification: create_index, update_index, rebuild_index, delete_index
\* a caller that rebuilds the index of d from the vectors E
StoreRebuild(d, E) == RebuildIndex(d, E, StoreMetadata(d, 0, E))

\* a caller that passes one metadata entry fewer than vectors
StoreCreateShort(d, E) ==
    /\ E # <<>>
    /\ CreateIndex(d, E, StoreMetadata(d, 0, Tail(E)))

NextRebuild ==
    \/ \E E \in StoreInputs : StoreCreate(StoreDoc, E)
    \/ \E E \in StoreInputs : StoreCreateShort(StoreDoc, E)
    \/ \E E \in StoreInputs : StoreUpdate(StoreDoc, E)
    \/ \E E \in StoreInputs : StoreRebuild(StoreDoc, E)
    \/ DeleteIndex(StoreDoc)

SpecRebuild == Init /\ [][NextRebuild]_vars

\* ------------------- specification: create_index followed by search
\* A caller that creates the index of StoreDoc and then searches it with one
\* of the vectors it has just inserted.
RoundVectors == StoreVectors \cup { <<0, 0, 0>> }
RoundInputs == SeqsUpTo(RoundVectors, MaxVecs) \ {<<>>}
RoundThresholds == StoreThresholds \cup {100}

RoundCreate(E) == StoreCreate(StoreDoc, E)

RoundSearch(i, k, t) ==
    /\ vsCall.op = "create_index" /\ vsCall.outcome = "ok"
    /\ i \in 1..Len(vsCall.embeddings)
    /\ SearchIndex(StoreDoc, vsCall.embeddings[i], k, t)

NextRound ==
    \/ \E E \in RoundInputs : RoundCreate(E)
    \/ \E i \in 1..MaxVecs, k \in 1..MaxK, t \in RoundThresholds : RoundSearch(i, k, t)

SpecRound == Init /\ [][NextRound]_vars

\* --------------------------- specification: the pipeline with cancellation
NextCancel ==
    \/ Next
    \/ \E r \in PipeRuns : Cancel(r)

SpecCancel == Init /\ [][NextCancel]_vars

\* ------------- specification: create_chat_completion and its retries
NextRetry ==
    \/ \E key \in FallbackKeys \cup {EnvKey}, api_key \in {None, "caller"} :
          CreateChatCompletion(key, api_key)
    \/ CompletionReturns
    \/ \E kind \in FailureKinds : CompletionFails(kind)

SpecRetry == Init /\ [][NextRetry]_vars

\* the same with a provider that fails every attempt
NextRetryFailing ==
    \/ \E key \in FallbackKeys \cup {EnvKey}, api_key \in {None, "caller"} :
          CreateChatCompletion(key, api_key)
    \/ \E kind \in FailureKinds : CompletionFails(kind)

SpecRetryFailing == Init /\ [][NextRetryFailing]_vars /\ WF_vars(NextRetryFailing)

\* ------------------------------------- specification: deleting a document
\* POST /upload, /reprocess and DELETE /{document_id} on one document, with
\* its pipeline runs.
NextDelete ==
    \/ Next
    \/ \E d \in PipeDocs : DeleteDocument(d)
    \/ DeleteFile
    \/ DeleteStoreIndex
    \/ DeleteRows

SpecDelete == Init /\ [][NextDelete]_vars

\* --------------------------- specification: the pipeline with a loaded model
NextEmbed ==
    \/ \E d \in PipeDocs, t \in Texts, r \in PipeRuns : Upload(d, t, r)
    \/ \E d \in PipeDocs, r \in PipeRuns : Reprocess(d, r)
    \/ \E r \in PipeRuns : PStart(r)
    \/ \E r \in PipeRuns : PExtract(r)
    \/ \E r \in PipeRuns : PSaveChunks(r)
    \/ \E r \in PipeRuns : PEmbedModel(r)
    \/ \E r \in PipeRuns : PIndex(r)
    \/ \E r \in PipeRuns : PComplete(r)

SpecEmbed == Init /\ [][NextEmbed]_vars

\* ----------------------- specification: _calculate_confidence_score alone
\* Answers by the features the function reads: a length on either side of
\* each threshold, and each kind of phrase present or not.
AnswerLengths == {0, 100, 101, 200, 201}
AnswerFeatures ==
    { [text |-> "...", length |-> n, cites_context |-> c, uncertain |-> u, not_found |-> f] :
        n \in AnswerLengths, c \in BOOLEAN, u \in BOOLEAN, f \in BOOLEAN }
ChunkCounts == 1..(MaxK + 1)
ContextChunks(n) == [i \in 1..n |-> [content |-> <<"a">>]]

InitScore ==
    /\ documents = [d \in Docs |-> NoDocument]
    /\ chunkTable = [d \in Docs |-> <<>>]
    /\ indexFile = [d \in Docs |-> NoIndex]
    /\ fileText = [d \in Docs |-> <<>>]
    /\ runs = [r \in RunIds |-> IdleRun]
    /\ launches = 0
    /\ completions = [d \in Docs |-> 0]
    /\ bulk = NoBulk
    /\ \E answer \in AnswerFeatures, n \in ChunkCounts :
          ask = [NoAsk EXCEPT !.pc = "generate", !.results = ContextChunks(n),
                              !.response = [NoResponse EXCEPT !.answer = answer]]
    /\ interactions = <<>>
    /\ calls = 0
    /\ vsCall = NoCall
    /\ deletion = NoDeletion
    /\ chunking = NoChunking
    /\ completion = NoCompletion

\* confidence_score = self._calculate_confidence_score(answer, context_chunks)
ScoreAnswer ==
    /\ ask.pc = "generate"
    /\ ask.response.confidence_score = NoResponse.confidence_score
    /\ ask' = [ask EXCEPT !.pc = "scored",
                          !.response.confidence_score =
                              CalculateConfidenceScore(ask.response.answer, ask.results)]
    /\ UNCHANGED <<documents, chunkTable, indexFile, fileText, runs, launches,
                   completions, bulk, interactions, calls, vsCall, deletion, chunking, completion>>

SpecScore == InitScore /\ [][ScoreAnswer]_vars

\* -------------------------- specification: _create_text_chunks alone
\* Texts that pass the empty-text check of process_document_content, and the
\* settings chunk_size > chunk_overlap >= 0.
ChunkTexts ==
    { t \in UNION {[1..n -> {"a", " "}] : n \in 1..MaxTextLen} : ~IsBlank(t) }
ChunkSettings ==
    { p \in (1..MaxChunkSize) \X (0..MaxChunkSize) : p[2] < p[1] }

InitChunk ==
    /\ documents = [d \in Docs |-> NoDocument]
    /\ chunkTable = [d \in Docs |-> <<>>]
    /\ indexFile = [d \in Docs |-> NoIndex]
    /\ fileText = [d \in Docs |-> <<>>]
    /\ runs = [r \in RunIds |-> IdleRun]
    /\ launches = 0
    /\ completions = [d \in Docs |-> 0]
    /\ bulk = NoBulk
    /\ ask = NoAsk
    /\ interactions = <<>>
    /\ calls = 0
    /\ vsCall = NoCall
    /\ deletion = NoDeletion
    /\ completion = NoCompletion
    /\ \E t \in ChunkTexts, p \in ChunkSettings :
          chunking = [NoChunking EXCEPT !.pc = "called", !.text = t,
                                        !.chunk_size = p[1], !.chunk_overlap = p[2]]

\* CreateChunks without the `if not chunk_text.strip(): continue` test: every
\* window becomes a chunk.
CreateChunksUnfiltered ==
    /\ chunking.pc = "called"
    /\ LET step == chunking.chunk_size - chunking.chunk_overlap
           n == (Len(chunking.text) + step - 1) \div step
       IN  chunking' = [chunking EXCEPT
                          !.pc = "returned",
                          !.chunks = [j \in 1..n |->
                                        [page_number |-> 1, id |-> 0, chunk_index |-> j - 1,
                                         content |-> Slice(chunking.text, (j - 1) * step,
                                                           chunking.chunk_size)]]]
    /\ UNCHANGED <<documents, chunkTable, indexFile, fileText, runs, launches,
                   completions, bulk, qaVars, vsCall, deletion, completion>>

\* chunks = await self._create_text_chunks(text_content, document_id)
CreateChunks ==
    /\ chunking.pc = "called"
    /\ chunking' = [chunking EXCEPT
                      !.pc = "returned",
                      !.chunks = ChunkFrom(chunking.text, 0, chunking.chunk_size,
                                           chunking.chunk_overlap, <<>>)]
    /\ UNCHANGED <<documents, chunkTable, indexFile, fileText, runs, launches,
                   completions, bulk, qaVars, vsCall, deletion, completion>>

SpecChunk == InitChunk /\ [][CreateChunks]_vars

\* ------------- specification: _create_text_chunks on texts with page markers
\* Extracted texts of several pages: up to MaxPieces pieces, each the marker
\* of page 1, the marker of page 2, or a letter.
PageMarker(n) == <<"P", " ", IF n = 1 THEN "1" ELSE "2", " ", "-">>
Pieces == { PageMarker(1), PageMarker(2), <<"a">> }
RECURSIVE Concat(_)
Concat(ps) == IF ps = <<>> THEN <<>> ELSE Head(ps) \o Concat(Tail(ps))
PageTexts == { Concat(ps) : ps \in UNION {[1..n -> Pieces] : n \in 1..MaxPieces} }
PageSettings ==
    { p \in (1..(2 * Len(PageMarker(1)))) \X {0, 1} : p[2] < p[1] }

InitPage ==
    /\ documents = [d \in Docs |-> NoDocument]
    /\ chunkTable = [d \in Docs |-> <<>>]
    /\ indexFile = [d \in Docs |-> NoIndex]
    /\ fileText = [d \in Docs |-> <<>>]
    /\ runs = [r \in RunIds |-> IdleRun]
    /\ launches = 0
    /\ completions = [d \in Docs |-> 0]
    /\ bulk = NoBulk
    /\ ask = NoAsk
    /\ interactions = <<>>
    /\ calls = 0
    /\ vsCall = NoCall
    /\ deletion = NoDeletion
    /\ completion = NoCompletion
    /\ \E t \in PageTexts, p \in PageSettings :
          chunking = [NoChunking EXCEPT !.pc = "called", !.text = t,
                                        !.chunk_size = p[1], !.chunk_overlap = p[2]]

SpecPage == InitPage /\ [][CreateChunks]_vars

\* ------------------------------------------------------------------ claims
Running(r) == runs[r].pc \in {"extract", "save", "embed", "index", "complete"}
Ended(r) == runs[r].pc \in {"done", "failed"}
Quiescent(d) == \A r \in RunIds : runs[r].document_id = d => ~(Running(r) \/ runs[r].pc = "scheduled")

LegalTransitions == { <<"pending", "processing">>, <<"processing", "completed">>,
                      <<"processing", "failed">>, <<"completed", "processing">>,
                      <<"failed", "processing">> }

\* C1: in every interleaving of upload, process_document_content and
\* reprocess on one document, processing_status changes only along
\* pending->processing, processing->completed, processing->failed,
\* completed->processing and failed->processing.
C1_OnlyLegalTransitions ==
    [][\A d \in Docs :
          (documents[d].exists
             /\ documents'[d].processing_status # documents[d].processing_status)
          => <<documents[d].processing_status, documents'[d].processing_status>>
                 \in LegalTransitions]_vars

\* C2: in any interleaving of pipeline runs, the number of documents that
\* are mid-processing at the same time never exceeds
\* settings.max_concurrent_processing.
MidProcessing == {runs[r].document_id : r \in {x \in RunIds : Running(x)}}
C2_ConcurrencyLimit == Cardinality(MidProcessing) <= max_concurrent_processing

\* C3: when bulk_process_documents returns, every requested document id has
\* been run to its own outcome and is reported exactly once, in successful
\* or in failed with the message of its error, so that
\* len(successful) + len(failed) = total; a failing run stops no sibling.
Occurrences(seq, x) == Cardinality({i \in 1..Len(seq) : seq[i] = x})
FailedIds == [i \in 1..Len(bulk.failed) |-> bulk.failed[i].document_id]
C3_BulkReportsEveryDocument ==
    bulk.pc = "returned"
    => /\ bulk.total = Len(bulk.ids)
       /\ Len(bulk.successful) + Len(bulk.failed) = bulk.total
       /\ \A d \in Docs : Occurrences(bulk.successful, d) + Occurrences(FailedIds, d)
                              = Occurrences(bulk.ids, d)
       /\ \A r \in 1..Len(bulk.ids) :
              /\ runs[r].document_id = bulk.ids[r]
              /\ \/ /\ runs[r].pc = "reported_ok"
                    /\ Occurrences(bulk.successful, bulk.ids[r]) >= 1
                 \/ /\ runs[r].pc = "reported_failed"
                    /\ \E i \in 1..Len(bulk.failed) :
                           bulk.failed[i] = [document_id |-> bulk.ids[r],
                                             error |-> runs[r].exc]
C3_Witness ==
    /\ bulk.pc = "returned"
    /\ bulk.total >= 3
    /\ Len(bulk.successful) >= 1
    /\ Len(bulk.failed) >= 1

\* C4: whenever a stage of process_document_content raises, the run ends
\* with processing_status = failed and error_message equal to the message of
\* the exception, also when that message is the empty string and when the
\* document already carries an older error_message.
C4_FailureMessageRecorded ==
    [][\A r \in RunIds :
          (runs'[r].pc = "failed" /\ runs[r].pc # "failed")
          => /\ documents'[runs[r].document_id].processing_status = "failed"
             /\ documents'[runs[r].document_id].error_message = runs'[r].exc]_vars

\* C5: a run sets processing_status to completed only after the same run
\* has saved its chunks and persisted the vector index; at that moment
\* chunk_count is the number of chunks the run produced (at least 1) and
\* processed_at is stamped; hence a document observed as completed has an
\* index file.
RowsStored(d, chunks) ==
    \A i \in 1..Len(chunks) : \E j \in 1..Len(chunkTable[d]) : chunkTable[d][j] = chunks[i]
OneRunChunks(d) == CreateTextChunks(fileText[d])
SameChunks(rows, chunks) ==
    /\ Len(rows) = Len(chunks)
    /\ \A i \in 1..Len(chunks) : /\ rows[i].chunk_index = chunks[i].chunk_index
                                 /\ rows[i].content = chunks[i].content
C6_ReprocessIdempotent ==
    \A d \in Docs :
        (completions[d] >= 2 /\ Quiescent(d) /\ documents[d].processing_status = "completed")
        => /\ SameChunks(chunkTable[d], OneRunChunks(d))
           /\ documents[d].chunk_count = Len(chunkTable[d])
           /\ indexFile[d].state = "complete"
           /\ SameChunks(indexFile[d].metadata, OneRunChunks(d))
           /\ indexFile[d].embeddings =
                  [i \in 1..Len(OneRunChunks(d)) |->
                      Normalize(FallbackEmbedding(OneRunChunks(d)[i].content))]

\* C7: index persistence is write-then-replace: whoever loads a document's
\* index file, at any moment and also after a writer was interrupted, finds
\* a complete index (the previous or the new one), never a torn file.
C7_IndexNeverTorn == \A d \in Docs : indexFile[d].state # "torn"

\* C8: ask_question on a document whose processing_status is not completed
\* (pending, processing or failed) is rejected with the document-not-ready
\* error; the rejection creates no QA interaction record, performs no index
\* search and issues no completion-provider call.
NotReady(d) == documents[d].exists /\ documents[d].processing_status # "completed"
NotReadyErrors == {"Failed to process question: " \o NotProcessedMessage,
                   StillProcessingMessage}
C8_NotReadyRejected ==
    /\ [][(ask.pc = "check" /\ ask'.pc # "check" /\ NotReady(ask.document_id))
            => /\ ask'.pc = "error"
               /\ ask'.error = "Failed to process question: Document is not yet processed"
               /\ interactions' = interactions]_vars
    /\ [][(calls' = calls + 1 /\ ask'.pc = "error" /\ NotReady(ask'.document_id))
            => /\ ask'.error = StillProcessingMessage
               /\ interactions' = interactions]_vars
    /\ [][interactions' # interactions => (ask.pc = "save" /\ ask'.pc = "returned")]_vars
    /\ []((ask.pc = "error" /\ ask.error \in NotReadyErrors)
            => (~ask.searched /\ ask.provider_calls = 0 /\ ask.results = <<>>
                /\ ask.response = NoResponse))
C8_Witness ==
    /\ ask.pc = "error"
    /\ ask.error = "Failed to process question: Document is not yet processed"
    /\ documents[ask.document_id].processing_status = "processing"
    /\ Len(interactions) = 1

\* C9: the number of persisted QA interaction records equals the number of
\* ask_question calls that returned an answer: a call that returns (the
\* not-found answer included) adds exactly one record, a call that fails adds
\* none.
C9_OneRecordPerAnswer ==
    [][/\ (ask'.pc = "returned" /\ ask.pc # "returned")
            => Len(interactions') = Len(interactions) + 1
       /\ (ask'.pc = "error" /\ ask.pc # "error")
            => interactions' = interactions]_vars

\* C10: when the search for a question returns zero results (no entry clears
\* the 0.3 threshold, or the index is missing), ask_question returns, as a
\* normal result, the fixed not-found answer with confidence_score 0.0, empty
\* sources and chunks_used 0, and calls the completion provider not at all.
NoEntryClears(file, q) ==
    \A i \in 1..Len(file.embeddings) :
        100 * Dot(file.embeddings[i], q) * Dot(file.embeddings[i], q)
            < 9 * Norm2(file.embeddings[i]) * Norm2(q)
ZeroResults(d, q, k) ==
    \/ Search(indexFile[d], q, k, min_relevance_percent) = {<<>>}
    \/ indexFile[d].state # "complete"
    \/ NoEntryClears(indexFile[d], q)
C10_NoResultsAnswer ==
    /\ [][(/\ ask.pc = "search"
           /\ ask'.pc \notin {"search", "error"}
           /\ ZeroResults(ask.document_id, ask.query, ask.max_chunks))
            => /\ ask'.pc = "returned"
               /\ ask'.response = NotFoundResponse
               /\ ask'.provider_calls = 0
               /\ ask'.error = None]_vars
    /\ []((ask.pc = "returned" /\ ask.results = <<>>)
            => (ask.response = NotFoundResponse /\ ask.provider_calls = 0))
C10_Witness ==
    /\ ask.pc = "returned"
    /\ ask.response = NotFoundResponse
    /\ ask.loaded = "complete"
    /\ Norm2(ask.query) > 0
    /\ ask.provider_calls = 0

\* The index a recorded search ran on (search leaves the file as it is).
SearchedIndex == LoadIndex(indexFile[vsCall.document_id])
\* The cosine score of stored entry i for the recorded query; a query of norm
\* zero has no cosine with any vector.
EntryScore(i) == Similarity(SearchedIndex.embeddings[i], vsCall.query)
HasScore == Norm2(vsCall.query) # 0
Returned(i) ==
    \E p \in 1..Len(vsCall.results) :
        vsCall.results[p].chunk_id = SearchedIndex.metadata[i].chunk_id

\* C11: search returns exactly the entries that are among the k highest
\* cosine scores and have a score >= threshold, in descending score order:
\* at most min(k, stored vectors) entries, each a stored entry with its own
\* score, none below the threshold, and no omitted entry that clears the
\* threshold unless k entries scoring at least as much were returned.
C11_SearchReturnsTopK ==
    vsCall.op = "search" =>
        LET R == vsCall.results
            n == Len(SearchedIndex.embeddings)
            t == PercentScore(vsCall.threshold)
        IN  /\ Len(R) <= Min(vsCall.k, n)
            /\ ~HasScore => R = <<>>
            /\ \A p \in 1..Len(R) :
                  /\ \E i \in 1..n :
                        /\ SearchedIndex.metadata[i].chunk_id = R[p].chunk_id
                        /\ SearchedIndex.metadata[i].content = R[p].content
                        /\ SearchedIndex.metadata[i].chunk_index = R[p].chunk_index
                        /\ R[p].relevance_score = EntryScore(i)
                  /\ ~ScoreLess(R[p].relevance_score, t)
                  /\ \A p2 \in 1..Len(R) :
                        p < p2 => /\ ~ScoreLess(R[p].relevance_score, R[p2].relevance_score)
                                  /\ R[p].chunk_id # R[p2].chunk_id
            /\ \A i \in 1..n :
                  (HasScore /\ ~Returned(i) /\ ~ScoreLess(EntryScore(i), t)) =>
                      /\ Len(R) = vsCall.k
                      /\ \A p \in 1..Len(R) : ~ScoreLess(R[p].relevance_score, EntryScore(i))
\* C11 witness: a search whose k-cut left out a lower-scoring entry that
\* clears the threshold, after returning two entries of different scores.
C11_Witness ==
    /\ vsCall.op = "search"
    /\ Len(vsCall.results) = 2
    /\ ScoreLess(vsCall.results[2].relevance_score, vsCall.results[1].relevance_score)
    /\ \E i \in 1..Len(SearchedIndex.embeddings) :
          /\ ~Returned(i)
          /\ ~ScoreLess(EntryScore(i), PercentScore(vsCall.threshold))
          /\ ScoreLess(EntryScore(i), vsCall.results[2].relevance_score)

SameScore(a, b) == ~ScoreLess(a, b) /\ ~ScoreLess(b, a)

\* C12: entries with equal score for the query are returned in insertion
\* order (smaller chunk_index first), and when the k-cut falls inside a group
\* of tied entries the earlier-inserted ones are the ones kept.
C12_TiesInInsertionOrder ==
    vsCall.op = "search" =>
        LET R == vsCall.results
        IN  /\ \A p, p2 \in 1..Len(R) :
                  (p < p2 /\ SameScore(R[p].relevance_score, R[p2].relevance_score))
                      => R[p].chunk_index < R[p2].chunk_index
            /\ \A i \in 1..Len(SearchedIndex.embeddings), p \in 1..Len(R) :
                  (HasScore /\ ~Returned(i) /\ SameScore(EntryScore(i), R[p].relevance_score))
                      => R[p].chunk_index < SearchedIndex.metadata[i].chunk_index

\* C13: search tells a missing index from a corrupt one: with no index file
\* it returns an empty list without error; with an index file that cannot be
\* read, search and update_index (append) signal an error.
C13_CorruptIndexIsError ==
    [][\A d \in Docs :
          /\ (vsCall'.op = "search" /\ vsCall'.document_id = d) =>
                /\ indexFile[d].state = "absent" =>
                      (vsCall'.outcome = "ok" /\ vsCall'.results = <<>>)
                /\ indexFile[d].state = "torn" => vsCall'.outcome = "error"
          /\ (vsCall'.op = "update_index" /\ vsCall'.document_id = d
                /\ indexFile[d].state = "torn") => vsCall'.outcome = "error"]_vars

C15_AppendKeepsEntries ==
    [][\A d \in Docs :
         (vsCall'.op = "update_index" /\ vsCall'.document_id = d) =>
            LET old == indexFile[d]
                new == indexFile'[d]
                n == Len(old.embeddings)
                E == vsCall'.embeddings
            IN  /\ old.state = "complete" =>
                      /\ new.state = "complete"
                      /\ Len(new.embeddings) >= n
                      /\ SubSeq(new.embeddings, 1, n) = old.embeddings
                      /\ SubSeq(new.metadata, 1, n) = old.metadata
                      /\ vsCall'.outcome = "ok" =>
                            /\ new.embeddings =
                                  old.embeddings \o [i \in 1..Len(E) |-> Normalize(E[i])]
                            /\ new.metadata = old.metadata \o vsCall'.metadata
                /\ old.state = "absent" =>
                      [outcome |-> vsCall'.outcome, file |-> new]
                          \in CreateOutcomes(old, E, vsCall'.metadata)]_vars

\* C16: when delete_document returns normally the document row, its chunk
\* rows and its index file are gone; a failure of the raw-file deletion or of
\* the index deletion does not end the call before the rows are deleted.
C16_DeleteCascades ==
    /\ [][(deletion'.pc = "returned" /\ deletion.pc # "returned") =>
            LET d == deletion'.document_id
            IN  /\ ~documents'[d].exists
                /\ chunkTable'[d] = <<>>
                /\ ~IndexExists(indexFile'[d])]_vars
    /\ [][deletion.pc \in {"file", "index"} => deletion'.pc # "error"]_vars

C18_ContextWithinBudget ==
    (ask.provider_calls > 0) => Len(ask.context) <= ask.context_window

\* C19: _calculate_confidence_score returns a value in [0, 1] (0..100
\* percent); with the other features fixed the score does not decrease when
\* the answer is longer (crosses > 100, > 200) or has a context reference,
\* and does not increase when it has an uncertainty or a not-found phrase.
C19_ConfidenceBoundedMonotone ==
    ask.pc = "scored" =>
        LET a == ask.response.answer
            score == ask.response.confidence_score
            ScoreOf(b) == CalculateConfidenceScore(b, ask.results)
        IN  /\ score \in 0..100
            /\ \A n \in AnswerLengths :
                  n >= a.length => ScoreOf([a EXCEPT !.length = n]) >= score
            /\ ScoreOf([a EXCEPT !.cites_context = TRUE]) >= score
            /\ ScoreOf([a EXCEPT !.uncertain = TRUE]) <= score
            /\ ScoreOf([a EXCEPT !.not_found = TRUE]) <= score
\* C19 witness: the score of a long answer that cites its context, on three
\* chunks, has been computed and is the top of the range.
C19_Witness ==
    /\ ask.pc = "scored"
    /\ ask.response.answer.length > 200
    /\ ask.response.answer.cites_context
    /\ ~ask.response.answer.uncertain /\ ~ask.response.answer.not_found
    /\ Len(ask.results) >= 3
    /\ ask.response.confidence_score = 100

\* The text the chunks stand for: the first chunk, then every later chunk
\* without the `overlap` characters it repeats from the window before it.
RECURSIVE Reassemble(_, _, _)
Reassemble(chunks, overlap, i) ==
    IF i > Len(chunks) THEN <<>>
    ELSE LET c == chunks[i].content
             fresh == IF i = 1 THEN c ELSE SubSeq(c, Min(overlap, Len(c)) + 1, Len(c))
         IN  fresh \o Reassemble(chunks, overlap, i + 1)

\* C20: for every text and every chunk size S and overlap O, 0 <= O < S, the
\* chunks of _create_text_chunks in chunk_index order cover every character
\* of the text: put together without the overlaps they give the text back.
C20_ChunksCoverText ==
    chunking.pc = "returned" =>
        /\ \A i \in 1..Len(chunking.chunks) : chunking.chunks[i].chunk_index = i - 1
        /\ Reassemble(chunking.chunks, chunking.chunk_overlap, 1) = chunking.text

\* The windows the chunker looks at, in text order: text[i:i + S] for
\* i = 0, S - O, 2(S - O), ... below len(text).
Windows(text, size, overlap) ==
    LET step == size - overlap
        n == (Len(text) + step - 1) \div step
    IN  [j \in 1..n |-> Slice(text, (j - 1) * step, size)]
NotBlank(w) == ~IsBlank(w)

\* C21: the chunker drops every whitespace-only window and numbers the rest
\* densely: the emitted chunks are the non-blank windows in text order, their
\* chunk_index values are 0, 1, ..., n-1 without gap or repeat, and no chunk
\* is empty or whitespace-only.
C21_DenseChunkIndices ==
    chunking.pc = "returned" =>
        LET W == Windows(chunking.text, chunking.chunk_size, chunking.chunk_overlap)
            kept == SelectSeq(W, NotBlank)
        IN  /\ Len(chunking.chunks) = Len(kept)
            /\ \A i \in 1..Len(chunking.chunks) :
                  /\ chunking.chunks[i].chunk_index = i - 1
                  /\ chunking.chunks[i].content = kept[i]
                  /\ chunking.chunks[i].content # <<>>
                  /\ ~IsBlank(chunking.chunks[i].content)
\* C21 witness: a window in the middle of the text was dropped and chunks
\* were emitted on both sides of it.
C21_Witness ==
    /\ chunking.pc = "returned"
    /\ Len(chunking.chunks) >= 2
    /\ LET W == Windows(chunking.text, chunking.chunk_size, chunking.chunk_overlap)
       IN  \E j \in 2..(Len(W) - 1) :
              IsBlank(W[j]) /\ ~IsBlank(W[j - 1]) /\ ~IsBlank(W[j + 1])


\* the positions of the chunk text c at which a whole marker "--- Page N ---"
\* starts
MarkersIn(c) ==
    { i \in 1..Len(c) : /\ c[i] = "P"
                        /\ i + 4 <= Len(c)
                        /\ c[i + 1] = " " /\ c[i + 2] \in Digits
                        /\ c[i + 3] = " " /\ c[i + 4] = "-" }
LastMarkerPage(c) ==
    LET last == CHOOSE i \in MarkersIn(c) : \A j \in MarkersIn(c) : j <= i
    IN  DigitValue(c[last + 2])

\* C22: each chunk's page_number is the number of the last page marker in the
\* chunk (so of the later one when the chunk holds two); a chunk without a
\* marker has the page_number of the chunk emitted before it, and 1 when there
\* is none. Chunks in which a marker is cut by the window are left open.
C22_PageOfLastMarker ==
    chunking.pc = "returned" =>
        \A i \in 1..Len(chunking.chunks) :
            LET c == chunking.chunks[i].content
                previous == IF i = 1 THEN 1 ELSE chunking.chunks[i - 1].page_number
                starts == { j \in 1..Len(c) : c[j] = "P" }
            IN  /\ starts = {} => chunking.chunks[i].page_number = previous
                /\ (starts # {} /\ starts = MarkersIn(c)) =>
                       chunking.chunks[i].page_number = LastMarkerPage(c)

\* a score equal to 1
IsOne(score) == score.num > 0 /\ score.num * score.num = score.den2

\* C23: a search that follows create_index, with one of the inserted vectors
\* as the query, k >= 1 and a threshold of at most 1, returns an entry that
\* holds the query vector, with score 1 and no result ranked above it with a
\* higher score; this for every inserted vector, the all-zero one included.
C23_RoundTrip ==
    (vsCall.op = "search" /\ vsCall.before = "complete") =>
        LET stored == indexFile[StoreDoc].embeddings
            results == vsCall.results
        IN  \E p \in 1..Len(results) :
               /\ stored[results[p].chunk_id] = Normalize(vsCall.query)
               /\ IsOne(results[p].relevance_score)
               /\ \A r \in 1..(p - 1) :
                     ~ScoreLess(results[p].relevance_score, results[r].relevance_score)

\* The searches of the stored index of StoreDoc with the query of the last
\* call, under every sort order that gives the list the call returned:
\* np.argsort is a function of the scores, so two searches of one index with
\* one query see the same order.
SearchedOrders ==
    LET data == LoadIndex(indexFile[StoreDoc])
        similarities == Similarities(data.embeddings, vsCall.query)
    IN  { Asc \in ArgsortOrders(similarities) :
            SearchResults(data, similarities, Asc, vsCall.k, vsCall.threshold)
                = vsCall.results }
SearchAgain(Asc, k, threshold_percent) ==
    LET data == LoadIndex(indexFile[StoreDoc])
    IN  IF Norm2(vsCall.query) = 0 THEN <<>>
        ELSE SearchResults(data, Similarities(data.embeddings, vsCall.query), Asc,
                           k, threshold_percent)
Elements(seq) == { seq[i] : i \in 1..Len(seq) }
MoreK == 1..(MaxEntries + 1)

\* C24: for a fixed index and query, a search with a greater or equal
\* threshold returns a subset of the results, and so no more of them; a
\* search with a greater or equal k returns no fewer results, and the same
\* number once k has reached the number of stored vectors.
C24_SearchMonotone ==
    (vsCall.op = "search" /\ vsCall.before = "complete") =>
        /\ Norm2(vsCall.query) # 0 => SearchedOrders # {}
        /\ \A Asc \in SearchedOrders :
              /\ \A t \in StoreThresholds :
                    t >= vsCall.threshold =>
                        /\ Elements(SearchAgain(Asc, vsCall.k, t)) \subseteq Elements(vsCall.results)
                        /\ Len(SearchAgain(Asc, vsCall.k, t)) <= Len(vsCall.results)
              /\ \A k \in MoreK :
                    k >= vsCall.k =>
                        /\ Len(SearchAgain(Asc, k, vsCall.threshold)) >= Len(vsCall.results)
                        /\ vsCall.k >= StoredCount(StoreDoc) =>
                               Len(SearchAgain(Asc, k, vsCall.threshold)) = Len(vsCall.results)

\* C24 witness: a search of an index of two or more vectors with k = 1 that
\* returned one result, where a greater threshold returns none and a greater
\* k returns more
C24_Witness ==
    /\ vsCall.op = "search" /\ vsCall.before = "complete"
    /\ StoredCount(StoreDoc) >= 2
    /\ vsCall.k = 1 /\ Len(vsCall.results) = 1
    /\ \E Asc \in SearchedOrders :
          /\ \E t \in StoreThresholds :
                t > vsCall.threshold /\ SearchAgain(Asc, vsCall.k, t) = <<>>
          /\ \E k \in MoreK : Len(SearchAgain(Asc, k, vsCall.threshold)) > 1
\* a run of process_document_content on d other than r has been started
OtherRunStarted(r, d) ==
    \E o \in PipeRuns \ {r} : runs[o].document_id = d /\ runs[o].pc \notin {"idle", "scheduled"}

\* C25: a step in which a run ends by CancelledError changes no document row, so the run moves
\* its document neither to failed nor to completed; with no other run started
\* on the document it is left in processing.  A later invocation is accepted:
\* while launches remain, reprocess can schedule a run on the document, and
\* every scheduled run can enter process_document_content.
C25_CancelLeavesProcessing ==
    /\ [][\A r \in PipeRuns :
            (runs[r].exc # "CancelledError" /\ runs'[r].exc = "CancelledError") =>
                /\ documents' = documents
                /\ runs[r].pc \in InFlight]_vars
    /\ [](\A r \in PipeRuns :
            (runs[r].exc = "CancelledError" /\ ~OtherRunStarted(r, runs[r].document_id)) =>
                documents[runs[r].document_id].processing_status = "processing")
    /\ [](\A r \in PipeRuns :
            (runs[r].exc = "CancelledError" /\ launches < MaxLaunches) =>
                \E o \in PipeRuns : ENABLED Reprocess(runs[r].document_id, o))
    /\ [](\A r, o \in PipeRuns :
            (runs[r].exc = "CancelledError" /\ runs[o].pc = "scheduled"
                 /\ runs[o].document_id = runs[r].document_id) =>
                ENABLED PStart(o))

\* C25 witness: a run was cancelled, and another run of the same document has
\* ended with the document completed
C25_Witness ==
    \E r, o \in PipeRuns :
        /\ runs[r].pc = "cancelled" /\ runs[o].pc = "done"
        /\ runs[o].document_id = runs[r].document_id
        /\ documents[runs[r].document_id].processing_status = "completed"
        /\ completions[runs[r].document_id] = 1
\* no run of document d is scheduled or under way
RunsFinished(d) ==
    \A r \in PipeRuns :
        runs[r].document_id = d => runs[r].pc \in {"idle", "done", "failed", "cancelled"}

\* C26: once delete_document has returned for a document (its deletion of the
\* index did not fail) and every pipeline run of the document has ended, the
\* deleted document has no index file and no chunk rows.
C26_DeleteWinsOverRun ==
    \A d \in PipeDocs :
        (/\ deletion.pc = "returned" /\ deletion.document_id = d
         /\ ~deletion.index_error
         /\ ~documents[d].exists
         /\ RunsFinished(d))
            => /\ ~IndexExists(indexFile[d])
               /\ chunkTable[d] = <<>>
\* C27: a rebuild_index whose create step is rejected (no vectors, a wrong
\* dimension, an error while writing) leaves the document with the complete
\* index it had before; so does a create_index rejected for its arguments.
C27_RebuildAllOrNothing ==
    [][(/\ \/ vsCall'.op = "rebuild_index"
           \/ vsCall'.op = "create_index" /\ ~ValidShape(vsCall'.embeddings)
        /\ vsCall'.outcome = "error"
        /\ indexFile[StoreDoc].state = "complete")
           => indexFile'[StoreDoc] = indexFile[StoreDoc]]_vars
\* C30: a complete index file holds one metadata entry per stored vector,
\* and a create_index, update_index or rebuild_index call whose vectors and
\* metadata differ in length ends in an error.
C30_OneMetadataPerVector ==
    /\ [](indexFile[StoreDoc].state = "complete" =>
            Len(indexFile[StoreDoc].metadata) = Len(indexFile[StoreDoc].embeddings))
    /\ [][(/\ vsCall'.op \in {"create_index", "update_index", "rebuild_index"}
           /\ Len(vsCall'.embeddings) # Len(vsCall'.metadata))
              => vsCall'.outcome = "error"]_vars
\* C29: a document whose processing_status is completed has no
\* error_message; a run that succeeds after a failed one (failed ->
\* processing -> completed) leaves no message of the earlier failure.
C29_CompletedHasNoError ==
    \A d \in PipeDocs :
        (documents[d].exists /\ documents[d].processing_status = "completed")
            => ~Truthy(documents[d].error_message)
\* C28: a call without a caller-supplied key, on a service with fallback
\* keys and a provider that fails every attempt, stops retrying: it ends by
\* raising the error that says the fallback keys are exhausted.
C28_RetryTerminates ==
    (completion.pc = "attempt" /\ completion.api_key = None) ~>
        (completion.pc = "raised" /\ completion.error = Exhausted)
====
